---- MODULE Spec2Model ----
(***************************************************************************)
(* Model of framework-integration/master_audit.py: main() loads a baseline *)
(* policy, walks its controls in order, dispatches each one on its         *)
(* check_type, collects one result per control and dumps the report to     *)
(* audit_report.json.                                                      *)
(*                                                                         *)
(* A Python dict is modelled as a record; a key the dict does not have     *)
(* holds the marker Absent (subscripting it raises KeyError, .get() takes  *)
(* the default).  A result dict is a record whose "remediation" field is   *)
(* really present or not.  timestamp and hostname of the report are not    *)
(* modelled; title and expected_value are always given.                    *)
(***************************************************************************)
EXTENDS Integers, Sequences, FiniteSets, TLC

VARIABLES
    policy_file_exists, \* os.path.exists(policy_file), line 51
    policy,             \* yaml.safe_load(f), line 57
    pc,                 \* position of main()
    i,                  \* 1-based index of the control the for loop is at
    report,             \* the report dict, lines 59-64
    console,            \* control ids of the per-control lines printed, line 98
    fixes,              \* the "[FIX]" lines printed, line 100
    dispatched,         \* number of controls whose dispatch (lines 71-81) ran
    report_file,        \* audit_report.json on disk
    exc,                \* the uncaught exception, "none" when there is none
    exit_code           \* exit status of the process, -1 while it runs

vars == <<policy_file_exists, policy, pc, i, report, console, fixes,
          dispatched, report_file, exc, exit_code>>

-----------------------------------------------------------------------------
(* Bounds and input values *)

MaxControls == 2

Absent == "<absent>"          \* the dict has no such key
NonPath == "<null>"           \* a target that is not str/bytes/PathLike
Path == "/etc/login.defs"

Ids == {"CTL-1", "CTL-2"}
CheckTypes == {"config_file_value", "service_process_presence", "unregistered_type"}
Parameters == {"ENCRYPT_METHOD", "PASS_MAX_DAYS"}
Guidances == {"Set ENCRYPT_METHOD SHA512.", ""}

DefaultRemediation == "Review system hardening guidelines."
DefaultMessage == "Check type not implemented."

SeqUpTo(S, n) == UNION {[1..k -> S] : k \in 0..n}

(* the fields of a control that main() reads on the path the control takes; *)
(* a field it never reads cannot change what main() does                    *)
FieldsRead(c) ==
    IF c.check_type = Absent THEN {"check_type"}
    ELSE LET d == CASE c.check_type = "config_file_value" ->
                          {"check_type", "target", "parameter"}
                    [] c.check_type = "service_process_presence" ->
                          {"check_type", "target"}
                    [] OTHER -> {"check_type"}
         IN  IF c.check_type = "config_file_value"
                /\ (c.parameter = Absent \/ c.target = NonPath) THEN d
             ELSE IF c.id = Absent THEN d \cup {"id"}
             ELSE IF c.audit_snippet_relevance = Absent
                  THEN d \cup {"id", "audit_snippet_relevance"}
             ELSE IF c.check_type = "config_file_value"
                  THEN d \cup {"id", "audit_snippet_relevance", "remediation_guidance"}
             ELSE d \cup {"id", "audit_snippet_relevance"}

DefaultControl ==
    [id |-> "CTL-1", title |-> "title", check_type |-> "unregistered_type",
     target |-> Path, parameter |-> Absent, expected_value |-> "SHA512",
     remediation_guidance |-> Absent, audit_snippet_relevance |-> Absent]

(* the controls a policy is drawn from: every combination of the fields the *)
(* code reads, the fields it does not read left at their default           *)
ControlSet ==
    {c \in [id : Ids \cup {Absent}, title : {"title"},
            check_type : CheckTypes \cup {Absent},
            target : {Path, NonPath},
            parameter : Parameters \cup {Absent},
            expected_value : {"SHA512"},
            remediation_guidance : Guidances \cup {Absent},
            audit_snippet_relevance : {"Design 07", Absent}] :
        \A f \in DOMAIN c : f \notin FieldsRead(c) => c[f] = DefaultControl[f]}

PolicySet ==
    {[policy_name |-> Absent, controls |-> <<>>]}
    \cup {[policy_name |-> "CIS Ubuntu Baseline", controls |-> cs] :
            cs \in SeqUpTo(ControlSet, MaxControls)}

-----------------------------------------------------------------------------
(* The check handlers *)

(* os.path.exists(target_file) raises TypeError for a target that is no path *)
HandlerRaises(c) ==
    /\ c.check_type = "config_file_value"
    /\ c.parameter # Absent
    /\ c.target = NonPath

audit_config_file_value(target_file, parameter, expected_value, exists) ==
    IF ~exists THEN <<"FAIL", "File '/etc/login.defs' not found.">>
    ELSE IF parameter = "ENCRYPT_METHOD"
         THEN <<"FAIL", "Expected 'SHA512', found 'MD5'.">>
    ELSE <<"PASS", "'PASS_MAX_DAYS' matches baseline.">>

audit_service_presence(service_name, expected_status) ==
    <<"PASS", "Service status is correct.">>

(* lines 71-81: the if/elif chain on check_type *)
Dispatch(c, exists) ==
    IF c.check_type = "config_file_value"
    THEN audit_config_file_value(c.target, c.parameter, c.expected_value, exists)
    ELSE IF c.check_type = "service_process_presence"
    THEN audit_service_presence(c.target, c.expected_value)
    ELSE <<"UNKNOWN", DefaultMessage>>

(* the exception one pass of the loop body raises on control c, or "none" *)
Raised(c) ==
    IF c.check_type = Absent THEN "KeyError: 'check_type'"
    ELSE IF c.check_type = "config_file_value" /\ c.parameter = Absent
         THEN "KeyError: 'parameter'"
    ELSE IF HandlerRaises(c) THEN "TypeError"
    ELSE IF c.id = Absent THEN "KeyError: 'id'"
    ELSE IF c.audit_snippet_relevance = Absent
         THEN "KeyError: 'audit_snippet_relevance'"
    ELSE "none"

(* whether the exception comes after the dispatch of lines 71-81 *)
RaisedAfterDispatch(c) ==
    Raised(c) \in {"KeyError: 'id'", "KeyError: 'audit_snippet_relevance'"}

(* line 92 written as `status != "PASS"` *)
NeedsRemediationNonPass(status) == status # "PASS"

(* line 92 *)
NeedsRemediation(status) == status = "FAIL"

(* line 93: control.get('remediation_guidance', default) *)
Remediation(c) ==
    IF c.remediation_guidance = Absent THEN DefaultRemediation
    ELSE c.remediation_guidance

(* lines 83-93 *)
Result(c, out) ==
    LET result == [id |-> c.id, title |-> c.title, status |-> out[1],
                   message |-> out[2],
                   design_concept |-> c.audit_snippet_relevance]
    IN  IF NeedsRemediation(out[1])
        THEN result @@ [remediation |-> Remediation(c)]
        ELSE result

(* line 95 written as `report['results'].insert(0, result)` *)
PrependResult(rs, r) == <<r>> \o rs

(* line 95 *)
AppendResult(rs, r) == Append(rs, r)

-----------------------------------------------------------------------------
(* main() *)

Init ==
    /\ policy_file_exists \in BOOLEAN
    /\ policy \in IF policy_file_exists THEN PolicySet
                  ELSE {[policy_name |-> Absent, controls |-> <<>>]}
    /\ pc = "start"
    /\ i = 1
    /\ report = [policy_name |-> Absent, results |-> <<>>]
    /\ console = <<>>
    /\ fixes = <<>>
    /\ dispatched = 0
    /\ report_file \in {[status |-> "absent", written |-> 0],
                        [status |-> "previous", written |-> 0]}
    /\ exc = "none"
    /\ exit_code = -1

(* lines 51-53 *)
PolicyFileMissing ==
    /\ pc = "start"
    /\ ~policy_file_exists
    /\ pc' = "exited"
    /\ exit_code' = 1
    /\ UNCHANGED <<policy_file_exists, policy, i, report, console, fixes,
                   dispatched, report_file, exc>>

(* lines 55-68, policy['policy_name'] raising KeyError *)
LoadPolicyRaises ==
    /\ pc = "start"
    /\ policy_file_exists
    /\ policy.policy_name = Absent
    /\ pc' = "aborted"
    /\ exc' = "KeyError: 'policy_name'"
    /\ exit_code' = 1
    /\ UNCHANGED <<policy_file_exists, policy, i, report, console, fixes,
                   dispatched, report_file>>

(* lines 55-68 *)
LoadPolicy ==
    /\ pc = "start"
    /\ policy_file_exists
    /\ policy.policy_name # Absent
    /\ report' = [policy_name |-> policy.policy_name, results |-> <<>>]
    /\ pc' = "loop"
    /\ UNCHANGED <<policy_file_exists, policy, i, console, fixes, dispatched,
                   report_file, exc, exit_code>>

(* lines 70-100, one pass of the loop body that raises *)
EvaluateControlRaises ==
    /\ pc = "loop"
    /\ i <= Len(policy.controls)
    /\ LET control == policy.controls[i] IN
        /\ Raised(control) # "none"
        /\ exc' = Raised(control)
        /\ dispatched' = IF RaisedAfterDispatch(control)
                         THEN dispatched + 1 ELSE dispatched
    /\ pc' = "aborted"
    /\ exit_code' = 1
    /\ UNCHANGED <<policy_file_exists, policy, i, report, console, fixes,
                   report_file>>

(* lines 70-100, one pass of the loop body *)
EvaluateControl ==
    /\ pc = "loop"
    /\ i <= Len(policy.controls)
    /\ LET control == policy.controls[i] IN
        /\ Raised(control) = "none"
        /\ \E exists \in BOOLEAN :
            LET result == Result(control, Dispatch(control, exists)) IN
            /\ report' = [report EXCEPT !.results = AppendResult(@, result)]
            /\ console' = Append(console, control.id)
            /\ fixes' = IF result.status = "FAIL"
                        THEN Append(fixes, result.remediation) ELSE fixes
    /\ dispatched' = dispatched + 1
    /\ i' = i + 1
    /\ UNCHANGED <<policy_file_exists, policy, pc, report_file, exc, exit_code>>

(* lines 102-104: the loop is over, open("audit_report.json", "w") truncates *)
OpenReport ==
    /\ pc = "loop"
    /\ i > Len(policy.controls)
    /\ report_file' = [status |-> "partial", written |-> 0]
    /\ pc' = "dumping"
    /\ UNCHANGED <<policy_file_exists, policy, i, report, console, fixes,
                   dispatched, exc, exit_code>>

(* line 105: json.dump writes the document piece by piece *)
DumpChunk ==
    /\ pc = "dumping"
    /\ report_file.written < Len(report.results)
    /\ report_file' = [report_file EXCEPT !.written = @ + 1]
    /\ UNCHANGED <<policy_file_exists, policy, pc, i, report, console, fixes,
                   dispatched, exc, exit_code>>

(* line 105: a write fails (OSError); the with block closes the file *)
WriteFails ==
    /\ pc = "dumping"
    /\ pc' = "aborted"
    /\ exc' = "OSError"
    /\ exit_code' = 1
    /\ UNCHANGED <<policy_file_exists, policy, i, report, console, fixes,
                   dispatched, report_file>>

(* lines 105-109: the dump is complete, the file is closed, main() returns *)
CloseReport ==
    /\ pc = "dumping"
    /\ report_file.written = Len(report.results)
    /\ report_file' = [report_file EXCEPT !.status = "complete"]
    /\ pc' = "done"
    /\ exit_code' = 0
    /\ UNCHANGED <<policy_file_exists, policy, i, report, console, fixes,
                   dispatched, exc>>

Next ==
    \/ PolicyFileMissing
    \/ LoadPolicyRaises
    \/ LoadPolicy
    \/ EvaluateControlRaises
    \/ EvaluateControl
    \/ OpenReport
    \/ DumpChunk
    \/ WriteFails
    \/ CloseReport

Spec == Init /\ [][Next]_vars

TypeOK ==
    /\ pc \in {"start", "exited", "aborted", "loop", "dumping", "done"}
    /\ i \in 1..(Len(policy.controls) + 1)
    /\ Len(report.results) <= Len(policy.controls)
    /\ exit_code \in {-1, 0, 1}

-----------------------------------------------------------------------------
(* Properties *)

Statuses == {"PASS", "FAIL", "ERROR", "UNKNOWN"}
RegisteredTypes == {"config_file_value", "service_process_presence"}

Controls == policy.controls
Results == report.results

(* the policy lacks a field validation requires: policy_name, id, check_type *)
Malformed(p) ==
    \/ p.policy_name = Absent
    \/ \E k \in 1..Len(p.controls) :
          p.controls[k].id = Absent \/ p.controls[k].check_type = Absent

(* a control with its required fields, whose target is a string *)
ValidControl(c) ==
    /\ c.id # Absent
    /\ c.check_type # Absent
    /\ c.target = Path

HasRemediation(r) == "remediation" \in DOMAIN r

(* the loop has taken control c at position i and gone on to the next one *)
ReportedAndContinued(c, status) ==
    /\ pc' = "loop"
    /\ i' = i + 1
    /\ Len(report'.results) = Len(Results) + 1
    /\ report'.results[Len(Results) + 1].id = c.id
    /\ report'.results[Len(Results) + 1].status \in status

(* C1: once the process of a policy with its required fields has ended
   (main() returned or an exception ended it), the report has one result per
   control, the k-th for the k-th control, each with one of the four
   statuses: no control is dropped. *)
C1_EveryControlReported ==
    (pc \in {"done", "aborted"} /\ ~Malformed(policy)) =>
        /\ Len(Results) = Len(Controls)
        /\ \A k \in 1..Len(Results) :
              /\ Results[k].id = Controls[k].id
              /\ Results[k].status \in Statuses

(* C2: a pass of the loop over a control whose handler raises appends a
   result with status ERROR for that control and goes on to the next
   control; the exception does not leave the loop. *)
C2_HandlerFailureIsolated ==
    [][(pc = "loop" /\ i <= Len(Controls) /\ HandlerRaises(Controls[i]))
          => ReportedAndContinued(Controls[i], {"ERROR"})]_vars

(* C3: a pass of the loop over a control whose check_type is not registered
   appends a result with status UNKNOWN and the message "Check type not
   implemented.", raises nothing and goes on to the next control. *)
C3_UnregisteredTypeIsUnknown ==
    [][(/\ pc = "loop" /\ i <= Len(Controls)
        /\ Controls[i].id # Absent
        /\ Controls[i].check_type \notin RegisteredTypes \cup {Absent})
          => /\ ReportedAndContinued(Controls[i], {"UNKNOWN"})
             /\ report'.results[Len(Results) + 1].message = DefaultMessage
             /\ exc' = "none"]_vars

(* C4: with a malformed policy no check is dispatched, no per-control line
   is printed, no result is collected and the report file is not written,
   wherever the malformed control stands. *)
C4_FailFastValidation ==
    (policy_file_exists /\ Malformed(policy)) =>
        /\ dispatched = 0
        /\ console = <<>>
        /\ Results = <<>>
        /\ report_file.status \in {"absent", "previous"}

(* C5: a result has a remediation field if and only if its status is FAIL
   or ERROR. *)
C5_RemediationIffFailOrError ==
    \A k \in 1..Len(Results) :
        HasRemediation(Results[k]) <=> Results[k].status \in {"FAIL", "ERROR"}

C5_Witness ==
    /\ pc = "done"
    /\ \E j, k \in 1..Len(Results) :
          /\ Results[j].status = "FAIL" /\ HasRemediation(Results[j])
          /\ Results[k].status \in {"PASS", "UNKNOWN"}
          /\ ~HasRemediation(Results[k])
          /\ Controls[k].remediation_guidance # Absent

(* C6: the remediation field of a result is the control's
   remediation_guidance when that is present and non-empty, the fixed
   fallback otherwise, and never the empty string. *)
C6_RemediationValue ==
    \A k \in 1..Len(Results) :
        HasRemediation(Results[k]) =>
            /\ Results[k].remediation =
                  IF Controls[k].remediation_guidance \notin {Absent, ""}
                  THEN Controls[k].remediation_guidance
                  ELSE DefaultRemediation
            /\ Results[k].remediation # ""

(* C7: when the process has ended after a completed audit in which some
   control has status FAIL or ERROR, its exit code is not zero. *)
C7_ExitCodeReflectsFailures ==
    (/\ exit_code # -1
     /\ policy_file_exists
     /\ Len(Results) = Len(Controls)
     /\ \E k \in 1..Len(Results) : Results[k].status \in {"FAIL", "ERROR"})
        => exit_code # 0

(* C8: the k-th result of the report is the result of the k-th control of
   the policy, whatever the outcomes. *)
C8_ResultOrderIsPolicyOrder ==
    /\ Len(Results) <= Len(Controls)
    /\ \A k \in 1..Len(Results) : Results[k].id = Controls[k].id

C8_Witness ==
    /\ pc = "done"
    /\ Len(Results) = 2
    /\ Results[1].id # Results[2].id
    /\ Results[1].status = "FAIL"
    /\ Results[2].status = "PASS"

(* C9: when a failure ends the process during the write of the report, the
   file holds no half-written report: it is absent, still its previous
   content, or the complete report. *)
C9_AtomicReportWrite ==
    (pc = "aborted" /\ exc = "OSError") =>
        report_file.status \in {"absent", "previous", "complete"}

(* C10: a pass of the loop over a control that has its required fields,
   whatever optional fields (parameter, remediation_guidance, relevance
   annotation) it omits, appends a result for it and goes on; the audit does
   not abort on it. *)
C10_OptionalFieldsOptional ==
    [][(pc = "loop" /\ i <= Len(Controls) /\ ValidControl(Controls[i]))
          => /\ ReportedAndContinued(Controls[i], Statuses)
             /\ exc' = "none"]_vars
====
